---- MODULE Spec2Model ----
(***************************************************************************)
(* The glyph-geometry operators of generate_all.py and make_dysfont.py and *)
(* the five VoDy recipes, as state machines over a font.                   *)
(*                                                                         *)
(* A font is a record  [glyf, hmtx, cmap, sTypoAscender]:                  *)
(*   glyf : glyph name -> glyph, hmtx : glyph name -> <<width, lsb>>,      *)
(*   cmap : character -> glyph name.                                       *)
(* A glyph is a record [numberOfContours, coordinates, components,         *)
(*   xMin, yMin, xMax, yMax]; numberOfContours is > 0 for a simple glyph,  *)
(*   -1 for a composite and 0 for an empty glyph (the font library's       *)
(*   isComposite() is numberOfContours = -1).                              *)
(* A component is a record [x, y, hasXY, transform, flags].                *)
(*                                                                         *)
(* Python floats are modelled by exact rationals <<n, d>> (d > 0, lowest   *)
(* terms).  The operator parameters of Spec are dyadic (1/2, 1, 5/4, 3/2)  *)
(* or integers: the float products on font units are exact, and the float  *)
(* quotients and roots of thicken_glyph, deepen_curve and open_counter     *)
(* round to the integers the exact values round to.                        *)
(***************************************************************************)
EXTENDS Integers, Sequences, FiniteSets, TLC

VARIABLES
    font,    \* the TTFont object the operators mutate in place
    call,    \* the operator call that produced the current font
    nops,    \* Spec: number of operator calls made so far
    source,  \* SpecRecipes: the font file INTER_REGULAR on disk (read-only)
    pc,      \* SpecRecipes: the recipe that is running, or "idle"
    todo,    \* SpecRecipes: the (char, glyph name) pairs still to be treated
    out,     \* SpecRecipes: recipe -> the font it saved last, as a sequence of 0 or 1 fonts
    runs     \* SpecRecipes: number of recipe runs started

vars == <<font, call, nops, source, pc, todo, out, runs>>

----------------------------------------------------------------------------
(* Bounds of the model *)

MaxOps == 2
MaxRuns == 2

----------------------------------------------------------------------------
(* Exact arithmetic standing for Python's float arithmetic *)

Abs(n) == IF n < 0 THEN -n ELSE n

RECURSIVE GCD(_, _)
GCD(a, b) == IF b = 0 THEN a ELSE GCD(b, a % b)

\* the rational n/d in lowest terms, d # 0
Q(n, d) ==
    LET g == GCD(Abs(n), Abs(d))
        s == IF d < 0 THEN -1 ELSE 1
    IN  <<(s * n) \div g, (s * d) \div g>>

QI(n) == <<n, 1>>
QAdd(p, q) == Q(p[1] * q[2] + q[1] * p[2], p[2] * q[2])
QSub(p, q) == Q(p[1] * q[2] - q[1] * p[2], p[2] * q[2])
QMul(p, q) == Q(p[1] * q[1], p[2] * q[2])
QDiv(p, q) == Q(p[1] * q[2], p[2] * q[1])
QLt(p, q) == p[1] * q[2] < q[1] * p[2]

\* Python 3 round(x) on a float: nearest integer, exact halves to the even one
round(q) ==
    LET f == q[1] \div q[2]
        r == 2 * (q[1] % q[2])
    IN  IF r < q[2] THEN f
        ELSE IF r > q[2] THEN f + 1
        ELSE IF f % 2 = 0 THEN f ELSE f + 1

\* Python int(x) on a float: truncation toward zero
int(q) == IF q[1] >= 0 THEN q[1] \div q[2] ELSE -((-q[1]) \div q[2])

\* flags | 0x0008
OrScaleFlag(flags) == IF (flags \div 8) % 2 = 1 THEN flags ELSE flags + 8

IsSquare(n) == \E r \in 0..n : r * r = n
Sqrt(n) == CHOOSE r \in 0..n : r * r = n

\* int(round(base + num / sqrt(rad))) for integers base, num and rad > 0:
\* the float sum  cx + dx * ((dist + amount) / dist)  of thicken_glyph, where
\* dist = sqrt(rad) / 2.  For an irrational root the value is never a half.
round_radial(base, num, rad) ==
    IF IsSquare(rad) THEN round(QAdd(QI(base), Q(num, Sqrt(rad))))
    ELSE LET a == Abs(num)
             m == CHOOSE k \in 0..a :
                     /\ (k = 0 \/ (2 * k - 1) * (2 * k - 1) * rad <= 4 * a * a)
                     /\ 4 * a * a < (2 * k + 1) * (2 * k + 1) * rad
         IN  IF num >= 0 THEN base + m ELSE base - m

----------------------------------------------------------------------------
(* Sequences of points *)

RECURSIVE MinOf(_)
MinOf(s) == IF Len(s) = 1 THEN s[1]
            ELSE LET m == MinOf(Tail(s)) IN IF s[1] < m THEN s[1] ELSE m

RECURSIVE MaxOf(_)
MaxOf(s) == IF Len(s) = 1 THEN s[1]
            ELSE LET m == MaxOf(Tail(s)) IN IF s[1] > m THEN s[1] ELSE m

Xs(coords) == [i \in 1..Len(coords) |-> coords[i][1]]
Ys(coords) == [i \in 1..Len(coords) |-> coords[i][2]]

isComposite(glyph) == glyph.numberOfContours = -1

\* glyph.recalcBounds(glyf_table) on a simple glyph: the bounds of its points
recalcBounds(glyph) ==
    [glyph EXCEPT !.xMin = MinOf(Xs(glyph.coordinates)),
                  !.xMax = MaxOf(Xs(glyph.coordinates)),
                  !.yMin = MinOf(Ys(glyph.coordinates)),
                  !.yMax = MaxOf(Ys(glyph.coordinates))]

setCoordinates(glyph, new_coords) ==
    recalcBounds([glyph EXCEPT !.coordinates = new_coords])

Identity == <<<<QI(1), QI(0)>>, <<QI(0), QI(1)>>>>

----------------------------------------------------------------------------
(* generate_all.py: the operators.  Each takes the font and returns the    *)
(* font as the call leaves it.                                             *)

putGlyph(f, gn, glyph) == [f EXCEPT !.glyf[gn] = glyph]
putMetric(f, gn, width, lsb) == [f EXCEPT !.hmtx[gn] = <<width, lsb>>]

\* the body of the loop over glyph.components in scale_glyph
scale_component(component, cx, sx, sy, anchor_x) ==
    LET t == component.transform
        new_x == IF anchor_x = "center"
                 THEN int(QAdd(cx, QMul(QSub(QI(component.x), cx), sx)))
                 ELSE int(QMul(QI(component.x), sx))
        new_y == int(QMul(QI(component.y), sy))
    IN  [component EXCEPT
            !.x = IF component.hasXY THEN new_x ELSE @,
            !.y = IF component.hasXY THEN new_y ELSE @,
            !.transform = <<<<QMul(t[1][1], sx), QMul(t[1][2], sx)>>,
                            <<QMul(t[2][1], sy), QMul(t[2][2], sy)>>>>,
            !.flags = OrScaleFlag(@)]

\* scale_point with the pivot left out after scaling about the centre
scale_point_no_pivot(p, cx, ascender, sx, sy, anchor_x, anchor_y) ==
    LET new_x == IF anchor_x = "center"
                 THEN QMul(QSub(QI(p[1]), cx), sx)
                 ELSE QMul(QI(p[1]), sx)
        new_y == IF anchor_y = "top"
                 THEN QMul(QSub(QI(p[2]), QI(ascender)), sy)
                 ELSE QMul(QI(p[2]), sy)
    IN  <<round(new_x), round(new_y)>>

\* the body of the loop over coords in scale_glyph
scale_point(p, cx, ascender, sx, sy, anchor_x, anchor_y) ==
    LET new_x == IF anchor_x = "center"
                 THEN QAdd(cx, QMul(QSub(QI(p[1]), cx), sx))
                 ELSE QMul(QI(p[1]), sx)
        new_y == IF anchor_y = "top"
                 THEN QAdd(QI(ascender), QMul(QSub(QI(p[2]), QI(ascender)), sy))
                 ELSE QMul(QI(p[2]), sy)
    IN  <<round(new_x), round(new_y)>>

scale_glyph(f, gn, sx, sy, anchor_x, anchor_y) ==
    LET glyph == f.glyf[gn]
        width == f.hmtx[gn][1]
        cx == IF anchor_x = "center" THEN Q(width, 2) ELSE QI(0)
        ascender == IF anchor_y = "top" THEN f.sTypoAscender ELSE 0
    IN  IF glyph.numberOfContours = 0 THEN f
        ELSE IF glyph.numberOfContours = -1 /\ ~isComposite(glyph) THEN f
        ELSE IF isComposite(glyph) THEN
            putGlyph(f, gn, [glyph EXCEPT !.components =
                [i \in 1..Len(glyph.components) |->
                    scale_component(glyph.components[i], cx, sx, sy, anchor_x)]])
        ELSE
            putGlyph(f, gn, setCoordinates(glyph,
                [i \in 1..Len(glyph.coordinates) |->
                    scale_point(glyph.coordinates[i], cx, ascender, sx, sy,
                                anchor_x, anchor_y)]))

\* set_advance_width that keeps the stored lsb
set_advance_width_keep_lsb(f, gn, new_width) ==
    putMetric(f, gn, new_width, f.hmtx[gn][2])

set_advance_width(f, gn, new_width) ==
    LET glyph == f.glyf[gn]
        lsb == IF glyph.numberOfContours # 0 /\ glyph.numberOfContours > 0
               THEN glyph.xMin ELSE f.hmtx[gn][2]
    IN  putMetric(f, gn, new_width, lsb)

\* add_spacing that widens by extra_left on both sides
add_spacing_symmetric(f, gn, extra_left, extra_right) ==
    LET glyph == f.glyf[gn]
        width == f.hmtx[gn][1]
        lsb == f.hmtx[gn][2]
        shifted ==
            IF isComposite(glyph) THEN
                [glyph EXCEPT !.components =
                    [i \in 1..Len(glyph.components) |->
                        [glyph.components[i] EXCEPT
                            !.x = IF glyph.components[i].hasXY
                                  THEN @ + extra_left ELSE @]]]
            ELSE IF glyph.numberOfContours > 0 THEN
                setCoordinates(glyph,
                    [i \in 1..Len(glyph.coordinates) |->
                        <<glyph.coordinates[i][1] + extra_left,
                          glyph.coordinates[i][2]>>])
            ELSE glyph
        new_lsb == IF shifted.numberOfContours > 0
                   THEN shifted.xMin ELSE lsb + extra_left
    IN  putMetric(putGlyph(f, gn, shifted), gn,
                  width + extra_left + extra_left, new_lsb)

add_spacing(f, gn, extra_left, extra_right) ==
    LET glyph == f.glyf[gn]
        width == f.hmtx[gn][1]
        lsb == f.hmtx[gn][2]
        shifted ==
            IF isComposite(glyph) THEN
                [glyph EXCEPT !.components =
                    [i \in 1..Len(glyph.components) |->
                        [glyph.components[i] EXCEPT
                            !.x = IF glyph.components[i].hasXY
                                  THEN @ + extra_left ELSE @]]]
            ELSE
                setCoordinates(glyph,
                    [i \in 1..Len(glyph.coordinates) |->
                        <<glyph.coordinates[i][1] + extra_left,
                          glyph.coordinates[i][2]>>])
        new_lsb == IF ~isComposite(shifted) /\ shifted.numberOfContours > 0
                   THEN shifted.xMin ELSE lsb + extra_left
    IN  IF glyph.numberOfContours = 0
           \/ (glyph.numberOfContours = -1 /\ ~isComposite(glyph))
        THEN putMetric(f, gn, width + extra_left + extra_right, lsb + extra_left)
        ELSE putMetric(putGlyph(f, gn, shifted), gn,
                       width + extra_left + extra_right, new_lsb)

\* the body of the loop over coords in thicken_glyph; cx2, cy2 are 2*cx, 2*cy
thicken_point(p, cx2, cy2, amount) ==
    LET dx2 == 2 * p[1] - cx2
        dy2 == 2 * p[2] - cy2
        rad == dx2 * dx2 + dy2 * dy2
    IN  IF rad > 0
        THEN <<round_radial(p[1], amount * dx2, rad),
               round_radial(p[2], amount * dy2, rad)>>
        ELSE p

\* thicken_glyph that keeps the stored lsb
thicken_glyph_keep_lsb(f, gn, amount) ==
    LET glyph == f.glyf[gn]
        width == f.hmtx[gn][1]
        coords == glyph.coordinates
        cx2 == MinOf(Xs(coords)) + MaxOf(Xs(coords))
        cy2 == MinOf(Ys(coords)) + MaxOf(Ys(coords))
        new_glyph == setCoordinates(glyph,
            [i \in 1..Len(coords) |-> thicken_point(coords[i], cx2, cy2, amount)])
        new_w == round(QI(width + amount * 2))
    IN  IF glyph.numberOfContours <= 0 THEN f
        ELSE IF isComposite(glyph) THEN f
        ELSE putMetric(putGlyph(f, gn, new_glyph), gn, new_w, f.hmtx[gn][2])

thicken_glyph(f, gn, amount) ==
    LET glyph == f.glyf[gn]
        width == f.hmtx[gn][1]
        coords == glyph.coordinates
        cx2 == MinOf(Xs(coords)) + MaxOf(Xs(coords))
        cy2 == MinOf(Ys(coords)) + MaxOf(Ys(coords))
        new_glyph == setCoordinates(glyph,
            [i \in 1..Len(coords) |-> thicken_point(coords[i], cx2, cy2, amount)])
        new_w == round(QI(width + amount * 2))
    IN  IF glyph.numberOfContours <= 0 THEN f
        ELSE IF isComposite(glyph) THEN f
        ELSE putMetric(putGlyph(f, gn, new_glyph), gn, new_w, new_glyph.xMin)

\* the body of the loop over coords in deepen_curve
deepen_point(p, min_y, mid_y, factor) ==
    IF QLt(QI(p[2]), mid_y)
    THEN LET pull == IF mid_y # QI(min_y)
                     THEN QDiv(QSub(mid_y, QI(p[2])), QSub(mid_y, QI(min_y)))
                     ELSE QI(0)
         IN  <<p[1], p[2] - round(QMul(pull, QI(factor)))>>
    ELSE p

deepen_curve(f, gn, factor) ==
    LET glyph == f.glyf[gn]
        coords == glyph.coordinates
        min_y == MinOf(Ys(coords))
        max_y == MaxOf(Ys(coords))
        mid_y == Q(min_y + max_y, 2)
    IN  IF glyph.numberOfContours <= 0 \/ isComposite(glyph) THEN f
        ELSE putGlyph(f, gn, setCoordinates(glyph,
                [i \in 1..Len(coords) |-> deepen_point(coords[i], min_y, mid_y, factor)]))

\* widen_component that leaves the flags alone
widen_component_no_flag(comp, factor) ==
    LET t == comp.transform
    IN  [comp EXCEPT
            !.transform = <<<<QMul(t[1][1], factor), t[1][2]>>, <<t[2][1], t[2][2]>>>>,
            !.x = IF comp.hasXY THEN int(QMul(QI(@), factor)) ELSE @]

\* the body of the loop over glyph.components in widen_glyph
widen_component(comp, factor) ==
    LET t == comp.transform
    IN  [comp EXCEPT
            !.transform = <<<<QMul(t[1][1], factor), t[1][2]>>, <<t[2][1], t[2][2]>>>>,
            !.x = IF comp.hasXY THEN int(QMul(QI(@), factor)) ELSE @,
            !.flags = OrScaleFlag(@)]

\* the half rounded up instead of floored
target_lsb_half_up(new_width, glyph_w) == (new_width - glyph_w + 1) \div 2

\* (new_width - glyph_w) // 2
target_lsb(new_width, glyph_w) == (new_width - glyph_w) \div 2

\* widen_glyph that writes the widened metric of an empty glyph too
widen_glyph_empty_metric(f, gn, factor) ==
    LET glyph == f.glyf[gn]
        width == f.hmtx[gn][1]
        lsb == f.hmtx[gn][2]
        new_width == round(QMul(QI(width), factor))
        coords == glyph.coordinates
        glyph_cx == Q(MinOf(Xs(coords)) + MaxOf(Xs(coords)), 2)
        scaled == setCoordinates(glyph,
            [i \in 1..Len(coords) |->
                <<round(QAdd(glyph_cx, QMul(QSub(QI(coords[i][1]), glyph_cx), factor))),
                  coords[i][2]>>])
        glyph_w == scaled.xMax - scaled.xMin
        shift == target_lsb(new_width, glyph_w) - scaled.xMin
        centred == IF shift # 0
                   THEN setCoordinates(scaled,
                            [i \in 1..Len(coords) |->
                                <<scaled.coordinates[i][1] + shift,
                                  scaled.coordinates[i][2]>>])
                   ELSE scaled
    IN  IF glyph.numberOfContours <= 0 THEN
            IF isComposite(glyph) THEN
                putMetric(
                    putGlyph(f, gn, [glyph EXCEPT !.components =
                        [i \in 1..Len(glyph.components) |->
                            widen_component(glyph.components[i], factor)]]),
                    gn, new_width, round(QMul(QI(lsb), factor)))
            ELSE putMetric(f, gn, new_width, round(QMul(QI(lsb), factor)))
        ELSE putMetric(putGlyph(f, gn, centred), gn, new_width, centred.xMin)

widen_glyph(f, gn, factor) ==
    LET glyph == f.glyf[gn]
        width == f.hmtx[gn][1]
        lsb == f.hmtx[gn][2]
        new_width == round(QMul(QI(width), factor))
        coords == glyph.coordinates
        glyph_cx == Q(MinOf(Xs(coords)) + MaxOf(Xs(coords)), 2)
        scaled == setCoordinates(glyph,
            [i \in 1..Len(coords) |->
                <<round(QAdd(glyph_cx, QMul(QSub(QI(coords[i][1]), glyph_cx), factor))),
                  coords[i][2]>>])
        glyph_w == scaled.xMax - scaled.xMin
        shift == target_lsb(new_width, glyph_w) - scaled.xMin
        centred == IF shift # 0
                   THEN setCoordinates(scaled,
                            [i \in 1..Len(coords) |->
                                <<scaled.coordinates[i][1] + shift,
                                  scaled.coordinates[i][2]>>])
                   ELSE scaled
    IN  IF glyph.numberOfContours <= 0 THEN
            IF isComposite(glyph) THEN
                putMetric(
                    putGlyph(f, gn, [glyph EXCEPT !.components =
                        [i \in 1..Len(glyph.components) |->
                            widen_component(glyph.components[i], factor)]]),
                    gn, new_width, round(QMul(QI(lsb), factor)))
            ELSE f
        ELSE putMetric(putGlyph(f, gn, centred), gn, new_width, centred.xMin)

\* the body of the loop over coords in open_counter
open_point(p, mid_x, max_x, amount) ==
    IF QLt(mid_x, QI(p[1]))
    THEN LET push == IF QI(max_x) # mid_x
                     THEN QDiv(QSub(QI(p[1]), mid_x), QSub(QI(max_x), mid_x))
                     ELSE QI(0)
         IN  <<p[1] + round(QMul(push, QI(amount))), p[2]>>
    ELSE p

open_counter(f, gn, amount) ==
    LET glyph == f.glyf[gn]
        width == f.hmtx[gn][1]
        coords == glyph.coordinates
        min_x == MinOf(Xs(coords))
        max_x == MaxOf(Xs(coords))
        mid_x == Q(min_x + max_x, 2)
        new_glyph == setCoordinates(glyph,
            [i \in 1..Len(coords) |-> open_point(coords[i], mid_x, max_x, amount)])
    IN  IF glyph.numberOfContours <= 0 \/ isComposite(glyph) THEN f
        ELSE putMetric(putGlyph(f, gn, new_glyph), gn, width + amount, new_glyph.xMin)

----------------------------------------------------------------------------
(* make_dysfont.py: its own scale_glyph *)

md_scale_component(component, scale) ==
    LET t == component.transform
    IN  [component EXCEPT
            !.x = IF component.hasXY THEN int(QMul(QI(@), scale)) ELSE @,
            !.y = IF component.hasXY THEN int(QMul(QI(@), scale)) ELSE @,
            !.transform = <<<<QMul(t[1][1], scale), QMul(t[1][2], scale)>>,
                            <<QMul(t[2][1], scale), QMul(t[2][2], scale)>>>>,
            !.flags = OrScaleFlag(@)]

\* md_scale_glyph that scales the stored lsb of a simple glyph
md_scale_glyph_scaled_lsb(f, gn, scale) ==
    LET glyph == f.glyf[gn]
        width == f.hmtx[gn][1]
        lsb == f.hmtx[gn][2]
        new_width == round(QMul(QI(width), scale))
        new_glyph == setCoordinates(glyph,
            [i \in 1..Len(glyph.coordinates) |->
                <<round(QMul(QI(glyph.coordinates[i][1]), scale)),
                  round(QMul(QI(glyph.coordinates[i][2]), scale))>>])
    IN  IF glyph.numberOfContours = 0 \/ glyph.numberOfContours = -1 THEN
            IF isComposite(glyph) THEN
                putMetric(
                    putGlyph(f, gn, [glyph EXCEPT !.components =
                        [i \in 1..Len(glyph.components) |->
                            md_scale_component(glyph.components[i], scale)]]),
                    gn, new_width, round(QMul(QI(lsb), scale)))
            ELSE putMetric(f, gn, new_width, 0)
        ELSE putMetric(putGlyph(f, gn, new_glyph), gn, new_width,
                       round(QMul(QI(lsb), scale)))

md_scale_glyph(f, gn, scale) ==
    LET glyph == f.glyf[gn]
        width == f.hmtx[gn][1]
        lsb == f.hmtx[gn][2]
        new_width == round(QMul(QI(width), scale))
        new_glyph == setCoordinates(glyph,
            [i \in 1..Len(glyph.coordinates) |->
                <<round(QMul(QI(glyph.coordinates[i][1]), scale)),
                  round(QMul(QI(glyph.coordinates[i][2]), scale))>>])
        new_lsb == IF new_glyph.numberOfContours > 0 THEN new_glyph.xMin ELSE 0
    IN  IF glyph.numberOfContours = 0 \/ glyph.numberOfContours = -1 THEN
            IF isComposite(glyph) THEN
                putMetric(
                    putGlyph(f, gn, [glyph EXCEPT !.components =
                        [i \in 1..Len(glyph.components) |->
                            md_scale_component(glyph.components[i], scale)]]),
                    gn, new_width, round(QMul(QI(lsb), scale)))
            ELSE putMetric(f, gn, new_width, 0)
        ELSE putMetric(putGlyph(f, gn, new_glyph), gn, new_width, new_lsb)

----------------------------------------------------------------------------
(* Fonts the operators are exercised on *)

SimpleGlyph(coords) ==
    recalcBounds([numberOfContours |-> 1, coordinates |-> coords,
                  components |-> <<>>,
                  xMin |-> 0, yMin |-> 0, xMax |-> 0, yMax |-> 0])

CompositeGlyph(comps, box) ==
    [numberOfContours |-> -1, coordinates |-> <<>>, components |-> comps,
     xMin |-> box[1], yMin |-> box[2], xMax |-> box[3], yMax |-> box[4]]

EmptyGlyph ==
    [numberOfContours |-> 0, coordinates |-> <<>>, components |-> <<>>,
     xMin |-> 0, yMin |-> 0, xMax |-> 0, yMax |-> 0]

Component(x, y, hasXY, transform, flags) ==
    [x |-> x, y |-> y, hasXY |-> hasXY, transform |-> transform, flags |-> flags]

\* a font holding the one glyph "a"
OneGlyphFont(glyph, width, lsb, ascender) ==
    [glyf |-> [gn \in {"a"} |-> glyph],
     hmtx |-> [gn \in {"a"} |-> <<width, lsb>>],
     cmap |-> [ch \in {"a"} |-> "a"],
     sTypoAscender |-> ascender]

SimpleShapes ==
    { <<<<0, 0>>, <<4, 0>>, <<4, 6>>, <<1, 3>>>>,
      <<<<1, -2>>, <<5, 0>>, <<3, 5>>>>,
      <<<<-1, 0>>, <<2, 4>>, <<2, 1>>>>,
      <<<<2, 2>>, <<2, 2>>>> }

CompositeShapes ==
    { <<Component(100, 0, TRUE, Identity, 2)>>,
      <<Component(3, -1, TRUE, Identity, 2),
        Component(-3, 5, TRUE, <<<<Q(1, 2), QI(0)>>, <<QI(0), Q(1, 2)>>>>, 10)>>,
      <<Component(0, 0, FALSE, Identity, 0)>> }

SpecFonts ==
    { OneGlyphFont(SimpleGlyph(c), w, SimpleGlyph(c).xMin, 7) :
          c \in SimpleShapes, w \in {6, 9} }
    \cup { OneGlyphFont(CompositeGlyph(c, <<1, 0, 5, 6>>), w, 1, 7) :
          c \in CompositeShapes, w \in {6, 610} }
    \cup { OneGlyphFont(EmptyGlyph, 3, 0, 7) }

ScalePairs == { <<Q(1, 2), Q(1, 2)>>, <<QI(1), QI(1)>>,
                <<Q(5, 4), Q(5, 4)>>, <<Q(1, 2), Q(5, 4)>> }
Factors == { Q(1, 2), QI(1), Q(5, 4), Q(3, 2) }
AnchorsX == {"origin", "center"}
AnchorsY == {"baseline", "top"}
Widths == {3, 8}
Extras == {-1, 0, 2}
Amounts == {-2, 0, 1, 3}

Call(op, gn, fx, fy, ax, ay, a, b) ==
    [op |-> op, gn |-> gn, fx |-> fx, fy |-> fy, ax |-> ax, ay |-> ay,
     a |-> a, b |-> b]

NoCall == Call("load", "", QI(0), QI(0), "", "", 0, 0)

----------------------------------------------------------------------------
(* Spec: any sequence of at most MaxOps operator calls on a loaded font *)

Init ==
    /\ font \in SpecFonts
    /\ call = NoCall
    /\ nops = 0
    /\ source = <<>>
    /\ pc = "idle"
    /\ todo = <<>>
    /\ out = <<>>
    /\ runs = 0

Called(c, f) ==
    /\ nops < MaxOps
    /\ font' = f
    /\ call' = c
    /\ nops' = nops + 1
    /\ UNCHANGED <<source, pc, todo, out, runs>>

ScaleGlyph ==
    \E gn \in DOMAIN font.glyf, s \in ScalePairs, ax \in AnchorsX, ay \in AnchorsY :
        Called(Call("scale_glyph", gn, s[1], s[2], ax, ay, 0, 0),
               scale_glyph(font, gn, s[1], s[2], ax, ay))

SetAdvanceWidth ==
    \E gn \in DOMAIN font.glyf, w \in Widths :
        Called(Call("set_advance_width", gn, QI(0), QI(0), "", "", w, 0),
               set_advance_width(font, gn, w))

AddSpacing ==
    \E gn \in DOMAIN font.glyf, l \in Extras, r \in Extras :
        Called(Call("add_spacing", gn, QI(0), QI(0), "", "", l, r),
               add_spacing(font, gn, l, r))

ThickenGlyph ==
    \E gn \in DOMAIN font.glyf, amount \in Amounts :
        Called(Call("thicken_glyph", gn, QI(0), QI(0), "", "", amount, 0),
               thicken_glyph(font, gn, amount))

DeepenCurve ==
    \E gn \in DOMAIN font.glyf, factor \in Amounts :
        Called(Call("deepen_curve", gn, QI(0), QI(0), "", "", factor, 0),
               deepen_curve(font, gn, factor))

WidenGlyph ==
    \E gn \in DOMAIN font.glyf, factor \in Factors :
        Called(Call("widen_glyph", gn, factor, QI(0), "", "", 0, 0),
               widen_glyph(font, gn, factor))

OpenCounter ==
    \E gn \in DOMAIN font.glyf, amount \in Amounts :
        Called(Call("open_counter", gn, QI(0), QI(0), "", "", amount, 0),
               open_counter(font, gn, amount))

MdScaleGlyph ==
    \E gn \in DOMAIN font.glyf, scale \in Factors :
        Called(Call("md_scale_glyph", gn, scale, QI(0), "", "", 0, 0),
               md_scale_glyph(font, gn, scale))

Next ==
    \/ ScaleGlyph
    \/ SetAdvanceWidth
    \/ AddSpacing
    \/ ThickenGlyph
    \/ DeepenCurve
    \/ WidenGlyph
    \/ OpenCounter
    \/ MdScaleGlyph

Spec == Init /\ [][Next]_vars

----------------------------------------------------------------------------
(* generate_all.py: the recipes.  A recipe loads a fresh TTFont from the    *)
(* source file, treats the vowels the cmap holds one by one, and saves.    *)
(* The recipe scales 1.20, 0.95 and 0.20 are not dyadic: on the source     *)
(* fonts below the float products round to the integers the exact          *)
(* products 6/5, 19/20 and 1/5 round to.                                   *)

VOWELS == <<"a", "e", "i", "o", "u", "A", "E", "I", "O", "U">>

Recipes == {"Small", "Big", "Space", "High", "Shaped"}

\* the keys of the treatments dict of make_vody_shaped, in its order
treatments ==
    <<"A", "a", "E", "e", "I", "i", "O", "o", "U", "u">>

RECURSIVE present(_, _)
present(chars, cmap) ==
    IF chars = <<>> THEN <<>>
    ELSE IF Head(chars) \in DOMAIN cmap
         THEN <<<<Head(chars), cmap[Head(chars)]>>>> \o present(Tail(chars), cmap)
         ELSE present(Tail(chars), cmap)

get_vowel_glyphs(f) == present(VOWELS, f.cmap)

\* TTFont(INTER_REGULAR): a new font object read from the file
TTFont(file) == file

scaled_width(f, gn, scale) == round(QMul(QI(f.hmtx[gn][1]), scale))

make_vody_small(f, gn) ==
    set_advance_width(scale_glyph(f, gn, Q(1, 2), Q(1, 2), "origin", "baseline"),
                      gn, scaled_width(f, gn, Q(1, 2)))

make_vody_big(f, gn) ==
    set_advance_width(scale_glyph(f, gn, Q(6, 5), Q(6, 5), "origin", "baseline"),
                      gn, scaled_width(f, gn, Q(6, 5)))

make_vody_space(f, gn) ==
    LET extra == scaled_width(f, gn, Q(1, 5))
    IN  add_spacing(f, gn, extra, extra)

make_vody_high(f, gn) ==
    set_advance_width(scale_glyph(f, gn, Q(19, 20), Q(19, 20), "center", "top"),
                      gn, scaled_width(f, gn, Q(19, 20)))

make_vody_shaped(f, ch, gn) ==
    CASE ch \in {"A", "a"} -> widen_glyph(f, gn, Q(5, 4))
      [] ch = "E" -> open_counter(f, gn, 120)
      [] ch = "e" -> open_counter(f, gn, 80)
      [] ch \in {"I", "i"} -> thicken_glyph(f, gn, 40)
      [] ch \in {"O", "o"} -> thicken_glyph(f, gn, 50)
      [] ch \in {"U", "u"} -> deepen_curve(f, gn, 80)

\* the vowels a recipe walks, in its order
recipe_vowels(recipe, f) ==
    IF recipe = "Shaped" THEN present(treatments, f.cmap) ELSE get_vowel_glyphs(f)

\* one turn of the recipe's loop
recipe_step(recipe, f, ch, gn) ==
    CASE recipe = "Small" -> make_vody_small(f, gn)
      [] recipe = "Big" -> make_vody_big(f, gn)
      [] recipe = "Space" -> make_vody_space(f, gn)
      [] recipe = "High" -> make_vody_high(f, gn)
      [] recipe = "Shaped" -> make_vody_shaped(f, ch, gn)

SourceFont(glyphs, metrics, cmap, ascender) ==
    [glyf |-> glyphs, hmtx |-> metrics, cmap |-> cmap, sTypoAscender |-> ascender]

SourceGlyphs1 ==
    [gn \in {"a", "e", "i", "O", "U"} |->
        CASE gn = "a" -> SimpleGlyph(<<<<1, 0>>, <<7, 0>>, <<7, 8>>, <<3, 4>>>>)
          [] gn = "e" -> SimpleGlyph(<<<<2, -1>>, <<9, 3>>, <<4, 7>>>>)
          [] gn = "i" -> CompositeGlyph(
                 <<Component(0, 0, TRUE, Identity, 2),
                   Component(3, 11, TRUE, Identity, 2)>>, <<1, 0, 3, 12>>)
          [] gn = "O" -> SimpleGlyph(<<<<1, 0>>, <<11, 2>>, <<8, 12>>, <<2, 9>>>>)
          [] gn = "U" -> SimpleGlyph(<<<<1, 12>>, <<3, 1>>, <<6, 0>>, <<9, 12>>>>)]

SourceGlyphs2 ==
    [gn \in {"A", "e", "space", "u"} |->
        CASE gn = "A" -> SimpleGlyph(<<<<0, 0>>, <<4, 11>>, <<8, 0>>>>)
          [] gn = "e" -> CompositeGlyph(
                 <<Component(100, 0, TRUE, Identity, 2)>>, <<1, 0, 6, 7>>)
          [] gn = "space" -> EmptyGlyph
          [] gn = "u" -> SimpleGlyph(<<<<-1, 7>>, <<2, -2>>, <<6, 7>>>>)]

SourceFonts ==
    { SourceFont(SourceGlyphs1,
                 [gn \in {"a", "e", "i", "O", "U"} |->
                     <<CASE gn = "a" -> 9 [] gn = "e" -> 11 [] gn = "i" -> 4
                         [] gn = "O" -> 13 [] gn = "U" -> 12,
                       SourceGlyphs1[gn].xMin>>],
                 [ch \in {"a", "e", "i", "O", "U"} |-> ch],
                 13),
      SourceFont(SourceGlyphs2,
                 [gn \in {"A", "e", "space", "u"} |->
                     <<CASE gn = "A" -> 8 [] gn = "e" -> 7 [] gn = "space" -> 3
                         [] gn = "u" -> 6,
                       SourceGlyphs2[gn].xMin>>],
                 [ch \in {"A", "E", "e", "u"} |->
                     CASE ch = "A" -> "A" [] ch = "E" -> "e" [] ch = "e" -> "e"
                       [] ch = "u" -> "u"],
                 11) }

NoFont == SourceFont(<<>>, <<>>, <<>>, 0)

InitRecipes ==
    /\ source \in SourceFonts
    /\ font = NoFont
    /\ call = NoCall
    /\ nops = 0
    /\ pc = "idle"
    /\ todo = <<>>
    /\ out = [r \in Recipes |-> <<>>]
    /\ runs = 0

\* Load that keeps the font object of the recipe before it
LoadStale(recipe) ==
    /\ pc = "idle"
    /\ runs < MaxRuns
    /\ font' = IF font = NoFont THEN TTFont(source) ELSE font
    /\ todo' = recipe_vowels(recipe, TTFont(source))
    /\ pc' = recipe
    /\ runs' = runs + 1
    /\ UNCHANGED <<call, nops, source, out>>

\* font = TTFont(INTER_REGULAR); vowels = get_vowel_glyphs(font)
Load(recipe) ==
    /\ pc = "idle"
    /\ runs < MaxRuns
    /\ font' = TTFont(source)
    /\ todo' = recipe_vowels(recipe, TTFont(source))
    /\ pc' = recipe
    /\ runs' = runs + 1
    /\ UNCHANGED <<call, nops, source, out>>

\* one turn of the loop over the vowels
Treat ==
    /\ pc # "idle"
    /\ todo # <<>>
    /\ font' = recipe_step(pc, font, Head(todo)[1], Head(todo)[2])
    /\ todo' = Tail(todo)
    /\ UNCHANGED <<call, nops, source, pc, out, runs>>

\* font.save(out_path); font.close()
Save ==
    /\ pc # "idle"
    /\ todo = <<>>
    /\ out' = [out EXCEPT ![pc] = <<font>>]
    /\ pc' = "idle"
    /\ UNCHANGED <<font, call, nops, source, todo, runs>>

NextRecipes ==
    \/ \E recipe \in Recipes : Load(recipe)
    \/ Treat
    \/ Save

SpecRecipes == InitRecipes /\ [][NextRecipes]_vars

----------------------------------------------------------------------------
(* Properties.  In Spec every step is one operator call, recorded in call'; *)
(* the glyph it acted on is looked at before and after the call.           *)

GlyphBefore == font.glyf[call'.gn]
GlyphAfter == font'.glyf[call'.gn]
WidthBefore == font.hmtx[call'.gn][1]
WidthAfter == font'.hmtx[call'.gn][1]
LsbBefore == font.hmtx[call'.gn][2]
LsbAfter == font'.hmtx[call'.gn][2]

\* the glyph and metric of the current state
Glyph == font.glyf["a"]
Width == font.hmtx["a"][1]
Lsb == font.hmtx["a"][2]

\* the rounding the specification names: nearest, exact halves away from zero
round_half_away(q) ==
    IF q[1] >= 0 THEN (2 * q[1] + q[2]) \div (2 * q[2])
                 ELSE -((2 * (-q[1]) + q[2]) \div (2 * q[2]))

HasScaleFlag(flags) == (flags \div 8) % 2 = 1

MetricWriters ==
    {"set_advance_width", "add_spacing", "thicken_glyph", "widen_glyph", "open_counter"}

(* C1, as claimed: in every state reached by operator calls, a glyph with  *)
(* positive contour count has leftSideBearing equal to its xMin.           *)
C1_LsbIsXMinAfterAnyOperator ==
    \A gn \in DOMAIN font.glyf :
        font.glyf[gn].numberOfContours > 0 => font.hmtx[gn][2] = font.glyf[gn].xMin

(* C1, amended: on a glyph with positive contour count, each call of       *)
(* set_advance_width, add_spacing, thicken_glyph, widen_glyph or           *)
(* open_counter leaves leftSideBearing equal to xMin; deepen_curve keeps   *)
(* the equality when it held before the call; scale_glyph leaves hmtx      *)
(* untouched (the stored leftSideBearing goes stale until a metric-writing *)
(* operator is called).                                                    *)
C1_LsbIsXMinAfterMetricWriters ==
    [][GlyphAfter.numberOfContours > 0 =>
        /\ call'.op \in MetricWriters => LsbAfter = GlyphAfter.xMin
        /\ (call'.op = "deepen_curve" /\ LsbBefore = GlyphBefore.xMin)
              => LsbAfter = GlyphAfter.xMin
        /\ call'.op = "scale_glyph" => font'.hmtx = font.hmtx]_vars

\* set_advance_width has run as the second call and the bearing is xMin
C1_Witness ==
    /\ call.op = "set_advance_width"
    /\ nops = 2
    /\ Glyph.numberOfContours > 0
    /\ Glyph.xMin = 2
    /\ Lsb = 2

(* C2: add_spacing(L, R) sets the advance width of any glyph to            *)
(* oldWidth + L + R; the points of a simple glyph are the old ones moved   *)
(* by (+L, 0): same count and order, y kept, pairwise x differences kept.  *)
C2_AddSpacing ==
    [][call'.op = "add_spacing" =>
        /\ WidthAfter = WidthBefore + call'.a + call'.b
        /\ GlyphBefore.numberOfContours > 0 =>
            /\ Len(GlyphAfter.coordinates) = Len(GlyphBefore.coordinates)
            /\ \A i \in 1..Len(GlyphBefore.coordinates) :
                /\ GlyphAfter.coordinates[i][1] = GlyphBefore.coordinates[i][1] + call'.a
                /\ GlyphAfter.coordinates[i][2] = GlyphBefore.coordinates[i][2]
            /\ \A i, j \in 1..Len(GlyphBefore.coordinates) :
                GlyphAfter.coordinates[i][1] - GlyphAfter.coordinates[j][1]
                    = GlyphBefore.coordinates[i][1] - GlyphBefore.coordinates[j][1]]_vars

\* add_spacing(2, -1) has moved a simple glyph
C2_Witness ==
    /\ call.op = "add_spacing"
    /\ call.a = 2
    /\ call.b = -1
    /\ Glyph.numberOfContours > 0
    /\ Glyph.xMin = 3

(* C3, as claimed: after widen_glyph on a simple glyph the stored          *)
(* leftSideBearing is (newWidth - visualWidth) / 2 rounded half away from  *)
(* zero.                                                                   *)
C3_LsbIsHalfRoundedAway ==
    (call.op = "widen_glyph" /\ Glyph.numberOfContours > 0) =>
        Lsb = round_half_away(Q(Width - (Glyph.xMax - Glyph.xMin), 2))

(* C3, amended: after widen_glyph on a simple glyph the stored             *)
(* leftSideBearing is xMin and is the floor of (newWidth - visualWidth)/2: *)
(* the right side bearing is the left one or the left one plus 1.          *)
C3_LsbIsHalfFloored ==
    (call.op = "widen_glyph" /\ Glyph.numberOfContours > 0) =>
        /\ Lsb = Glyph.xMin
        /\ 2 * Lsb <= Width - (Glyph.xMax - Glyph.xMin)
        /\ Width - (Glyph.xMax - Glyph.xMin) <= 2 * Lsb + 1
        /\ (Width - Glyph.xMax) - Lsb \in {0, 1}

\* a widened simple glyph whose slack is odd: the bearings differ by 1
C3_Witness ==
    /\ call.op = "widen_glyph"
    /\ Glyph.numberOfContours > 0
    /\ (Width - (Glyph.xMax - Glyph.xMin)) % 2 = 1
    /\ (Width - Glyph.xMax) - Lsb = 1

(* C4, as claimed: thicken_glyph(0), deepen_curve(0) and open_counter(0)   *)
(* leave the whole font entry of any glyph (points, bounding box, advance  *)
(* width, leftSideBearing) as it was.                                      *)
C4_ZeroIsIdentity ==
    [][(call'.op \in {"thicken_glyph", "deepen_curve", "open_counter"} /\ call'.a = 0)
          => font' = font]_vars

(* C4, amended: thicken_glyph(0), deepen_curve(0) and open_counter(0)      *)
(* leave every point, the bounding box and the advance width of any glyph  *)
(* as they were; deepen_curve(0) also leaves leftSideBearing, while        *)
(* thicken_glyph(0) and open_counter(0) on a glyph with positive contour   *)
(* count set it to xMin (unchanged exactly when it was xMin before).       *)
C4_ZeroKeepsOutlineAndWidth ==
    [][(call'.op \in {"thicken_glyph", "deepen_curve", "open_counter"} /\ call'.a = 0) =>
        /\ font'.glyf = font.glyf
        /\ WidthAfter = WidthBefore
        /\ LsbAfter = IF call'.op # "deepen_curve" /\ GlyphBefore.numberOfContours > 0
                      THEN GlyphBefore.xMin ELSE LsbBefore]_vars

\* open_counter(0) has run as the second call on a simple glyph
C4_Witness ==
    /\ call.op = "open_counter"
    /\ call.a = 0
    /\ nops = 2
    /\ Glyph.numberOfContours > 0
    /\ Glyph.xMin = 3

(* C5: scale_glyph with sx = sy = 1 leaves every point and every component *)
(* offset as it was, for both x anchors and both y anchors.                *)
C5_UnitScaleKeepsCoordinates ==
    [][(call'.op = "scale_glyph" /\ call'.fx = QI(1) /\ call'.fy = QI(1)) =>
        /\ GlyphAfter.coordinates = GlyphBefore.coordinates
        /\ Len(GlyphAfter.components) = Len(GlyphBefore.components)
        /\ \A i \in 1..Len(GlyphBefore.components) :
            /\ GlyphAfter.components[i].x = GlyphBefore.components[i].x
            /\ GlyphAfter.components[i].y = GlyphBefore.components[i].y]_vars

\* a unit scale about the centre and the ascender has run on a simple glyph
\* of odd advance width
C5_Witness ==
    /\ call.op = "scale_glyph"
    /\ call.fx = QI(1)
    /\ call.fy = QI(1)
    /\ call.ax = "center"
    /\ call.ay = "top"
    /\ Glyph.numberOfContours > 0
    /\ Width = 9

\* the exact value scale_glyph rounds: v scaled by s about pivot c
ScaledAbout(v, c, s) == QAdd(c, QMul(QSub(QI(v), c), s))

(* C6, as claimed: every conversion to font units rounds to the nearest    *)
(* integer, exact halves away from zero: the points and component offsets  *)
(* scale_glyph writes, the advance width and composite leftSideBearing and *)
(* offsets widen_glyph writes.                                             *)
C6_RoundsHalfAwayFromZero ==
    [][/\ (call'.op = "scale_glyph" /\ GlyphBefore.numberOfContours > 0) =>
            \A i \in 1..Len(GlyphBefore.coordinates) :
                GlyphAfter.coordinates[i] =
                    <<round_half_away(ScaledAbout(GlyphBefore.coordinates[i][1],
                         IF call'.ax = "center" THEN Q(WidthBefore, 2) ELSE QI(0),
                         call'.fx)),
                      round_half_away(ScaledAbout(GlyphBefore.coordinates[i][2],
                         IF call'.ay = "top" THEN QI(font.sTypoAscender) ELSE QI(0),
                         call'.fy))>>
       /\ (call'.op = "scale_glyph" /\ isComposite(GlyphBefore)) =>
            \A i \in 1..Len(GlyphBefore.components) :
                GlyphBefore.components[i].hasXY =>
                    /\ GlyphAfter.components[i].x =
                         round_half_away(ScaledAbout(GlyphBefore.components[i].x,
                             IF call'.ax = "center" THEN Q(WidthBefore, 2) ELSE QI(0),
                             call'.fx))
                    /\ GlyphAfter.components[i].y =
                         round_half_away(QMul(QI(GlyphBefore.components[i].y), call'.fy))
       /\ (call'.op = "widen_glyph" /\ GlyphBefore.numberOfContours # 0) =>
            WidthAfter = round_half_away(QMul(QI(WidthBefore), call'.fx))
       /\ (call'.op = "widen_glyph" /\ isComposite(GlyphBefore)) =>
            /\ LsbAfter = round_half_away(QMul(QI(LsbBefore), call'.fx))
            /\ \A i \in 1..Len(GlyphBefore.components) :
                GlyphBefore.components[i].hasXY =>
                    GlyphAfter.components[i].x =
                        round_half_away(QMul(QI(GlyphBefore.components[i].x), call'.fx))
      ]_vars

(* C7: an operator called on a glyph kind it does not support changes      *)
(* nothing: thicken_glyph, deepen_curve and open_counter on a composite or *)
(* on a glyph with contour count <= 0, scale_glyph and widen_glyph on an   *)
(* empty glyph.                                                            *)
C7_UnsupportedIsNoOp ==
    [][(\/ /\ call'.op \in {"thicken_glyph", "deepen_curve", "open_counter"}
           /\ (isComposite(GlyphBefore) \/ GlyphBefore.numberOfContours <= 0)
        \/ /\ call'.op \in {"scale_glyph", "widen_glyph"}
           /\ GlyphBefore.numberOfContours = 0)
          => font' = font]_vars

\* widen_glyph(5/4) has run as the second call on the empty glyph
C7_Witness ==
    /\ call.op = "widen_glyph"
    /\ call.fx = Q(5, 4)
    /\ nops = 2
    /\ Glyph.numberOfContours = 0
    /\ Width = 4

RECURSIVE run_recipe(_, _, _)
\* the font a recipe leaves when its loop runs over vowels from font f
run_recipe(recipe, f, vowels) ==
    IF vowels = <<>> THEN f
    ELSE run_recipe(recipe, recipe_step(recipe, f, Head(vowels)[1], Head(vowels)[2]),
                    Tail(vowels))

(* C8: whatever recipes ran before and however often, the font a recipe    *)
(* saves is the one that recipe makes from the unmodified source font, and *)
(* a recipe that has just loaded holds the source font.                    *)
C8_RecipesIndependent ==
    /\ \A recipe \in Recipes :
          out[recipe] # <<>> =>
              out[recipe][1] = run_recipe(recipe, source, recipe_vowels(recipe, source))
    /\ (pc # "idle" /\ todo = recipe_vowels(pc, source) /\ todo # <<>>) => font = source

\* Shaped has saved after Small had run and saved before it
C8_Witness ==
    /\ runs = 2
    /\ pc = "idle"
    /\ out["Small"] # <<>>
    /\ out["Shaped"] # <<>>
    /\ out["Small"][1] # source
    /\ out["Shaped"][1] # out["Small"][1]

AllFlagged(f) ==
    \A gn \in DOMAIN f.glyf :
        \A i \in 1..Len(f.glyf[gn].components) :
            f.glyf[gn].components[i].transform # Identity
                => HasScaleFlag(f.glyf[gn].components[i].flags)

C10_ScriptsAgreeOnSimpleGlyphs ==
    [][(call'.op = "md_scale_glyph" /\ GlyphBefore.numberOfContours > 0) =>
        font' = set_advance_width(
                    scale_glyph(font, call'.gn, call'.fx, call'.fx, "origin", "baseline"),
                    call'.gn, scaled_width(font, call'.gn, call'.fx))]_vars

\* make_dysfont's scale_glyph(0.5) has run as the second call on a simple glyph
C10_Witness ==
    /\ call.op = "md_scale_glyph"
    /\ call.fx = Q(1, 2)
    /\ nops = 2
    /\ Glyph.numberOfContours > 0
    /\ Glyph.xMin = 0
    /\ Glyph.xMax = 1

====
